---------------------------- MODULE Spec2Model ----------------------------
(***************************************************************************)
(* Model of scripts/parse_config.py: the configuration parser of the       *)
(* disconnected-resources pipeline.  One run of main() is a state machine  *)
(* load_config -> validate_config -> (stop if --validate-only) ->          *)
(* export_json | export_env_vars -> emit.                                  *)
(*                                                                         *)
(* Python values are records tagged by their type; a mapping is a record   *)
(* over the keys the program reads, with the marker Absent for a key that  *)
(* the mapping does not hold.                                              *)
(***************************************************************************)
EXTENDS Naturals, Sequences, FiniteSets, TLC

VARIABLES
    pc,        \* position of main(): "start", "loaded", "validated", "exit"
    args,      \* argparse namespace: format, output, validate_only
    cfgfile,   \* what is at the config_file path: "missing", "malformed", "ok"
    config,    \* the value yaml.safe_load returned (NoConfig before loading)
    stdout,    \* what has been printed to standard output, in order
    stderr,    \* what has been printed to the error stream, in order
    dest,      \* the --output destination file
    status     \* the exit status of the process (Running until it ends)

vars == <<pc, args, cfgfile, config, stdout, stderr, dest, status>>

----------------------------------------------------------------------------
(* Bounds of the model *)

\* At most this many of the six source sections are keys of a document.
MaxSections == 2

----------------------------------------------------------------------------
(* Python values *)

Absent == [t |-> "absent"]          \* the key is not in the mapping
PyNone == [t |-> "none"]
PyBool(b) == [t |-> "bool", b |-> b]
PyStr(s) == [t |-> "str", s |-> s]
PyFloat(r) == [t |-> "float", repr |-> r]
PyDate(iso) == [t |-> "date", iso |-> iso]
PyList(l) == [t |-> "list", l |-> l]
PyDict(d) == [t |-> "dict", d |-> d]

PyTrue == PyBool(TRUE)
PyFalse == PyBool(FALSE)

IsDict(v) == v.t = "dict"

\* `key in d` for a mapping d
In(key, v) == key \in DOMAIN v.d /\ v.d[key] # Absent

\* d.get(key, default)
Get(v, key, default) == IF In(key, v) THEN v.d[key] ELSE default

\* Python truth value testing: bool(v)
Truthy(v) ==
    CASE v.t = "absent" -> FALSE
      [] v.t = "none" -> FALSE
      [] v.t = "bool" -> v.b
      [] v.t = "str" -> v.s # ""
      [] v.t = "float" -> v.repr \notin {"0.0", "-0.0"}
      [] v.t = "date" -> TRUE
      [] v.t = "list" -> v.l # <<>>
      [] v.t = "dict" -> \E k \in DOMAIN v.d : v.d[k] # Absent

\* str(v), for the values an f-string of the program formats
Str(v) ==
    CASE v.t = "none" -> "None"
      [] v.t = "bool" -> IF v.b THEN "True" ELSE "False"
      [] v.t = "str" -> v.s
      [] v.t = "float" -> v.repr
      [] v.t = "date" -> v.iso
      [] OTHER -> "<repr>"

\* s.lower(), on the strings Str yields for the documents of the model
Lower(s) ==
    CASE s = "True" -> "true"
      [] s = "False" -> "false"
      [] s = "None" -> "none"
      [] s = "Yes" -> "yes"
      [] OTHER -> s

RECURSIVE JoinStrs(_)
JoinStrs(l) ==
    IF l = <<>> THEN ""
    ELSE IF Len(l) = 1 THEN l[1].s
    ELSE l[1].s \o "," \o JoinStrs(Tail(l))

\* ','.join(v): TypeError unless v is iterable and every item is a str
\* (a str argument, joined character by character, is no value of the
\* optional lists enumerated below)
JoinRaises(v) ==
    \/ v.t \notin {"list", "str"}
    \/ v.t = "list" /\ \E i \in 1..Len(v.l) : v.l[i].t # "str"

Join(v) == IF v.t = "list" THEN JoinStrs(v.l) ELSE v.s


----------------------------------------------------------------------------
(* Configuration documents *)

\* The six source sections, in the order the program walks them
Sources == <<"npm", "pypi", "debian", "rpm", "containers", "vscode">>

SourceSet == {Sources[i] : i \in 1..Len(Sources)}

\* The list a source must supply when it is enabled
RequiredList(source) ==
    CASE source = "containers" -> "images"
      [] source = "vscode" -> "extensions"
      [] OTHER -> "packages"

\* XXX_ENABLED etc.: source.upper()
Upper(source) ==
    CASE source = "npm" -> "NPM"
      [] source = "pypi" -> "PYPI"
      [] source = "debian" -> "DEBIAN"
      [] source = "rpm" -> "RPM"
      [] source = "containers" -> "CONTAINERS"
      [] source = "vscode" -> "VSCODE"

\* The keys of a source section that the program reads
SectionKeys ==
    {"enabled", "packages", "images", "extensions", "include_dependencies",
     "python_versions", "platforms", "distribution", "release",
     "architectures", "export_format"}

EmptySection == [k \in SectionKeys |-> Absent]

\* A source section holding `enabled` and its required list (Absent: no key)
Section(source, enabled, list) ==
    PyDict([EmptySection EXCEPT !["enabled"] = enabled,
                                ![RequiredList(source)] = list])

OneItem == PyList(<<PyStr("left-pad")>>)
TwoItems == PyList(<<PyStr("requests"), PyStr("flask")>>)

\* The optional keys of a source section, all given, none at its default
WithOptions(source, sec) ==
    PyDict(
      CASE source = "npm" ->
             [sec.d EXCEPT !["include_dependencies"] = PyFalse]
        [] source = "pypi" ->
             [sec.d EXCEPT !["include_dependencies"] = PyFalse,
                           !["python_versions"] =
                               PyList(<<PyStr("3.11"), PyStr("3.12")>>),
                           !["platforms"] = PyList(<<PyStr("manylinux2014_x86_64")>>)]
        [] source = "debian" ->
             [sec.d EXCEPT !["include_dependencies"] = PyFalse,
                           !["distribution"] = PyStr("debian"),
                           !["release"] = PyStr("bookworm"),
                           !["architectures"] =
                               PyList(<<PyStr("amd64"), PyStr("arm64")>>)]
        [] source = "rpm" ->
             [sec.d EXCEPT !["include_dependencies"] = PyFalse,
                           !["distribution"] = PyStr("rocky"),
                           !["release"] = PyStr("8"),
                           !["architectures"] = PyList(<<PyStr("x86_64")>>)]
        [] source = "containers" ->
             [sec.d EXCEPT !["export_format"] = PyStr("oci-archive")]
        [] OTHER -> sec.d)

\* An optional list written with unquoted numbers: YAML reads 3.11 as a float
WithNumbers(source, sec) ==
    PyDict(
      CASE source = "pypi" ->
             [sec.d EXCEPT !["python_versions"] = PyList(<<PyFloat("3.11")>>)]
        [] source \in {"debian", "rpm"} ->
             [sec.d EXCEPT !["architectures"] = PyList(<<PyFloat("64.0")>>)]
        [] OTHER -> sec.d)

\* What yaml.safe_load can return for the section of `source`
SectionValues(source) ==
    { PyNone,                                        \* `npm:` and nothing under it
      Section(source, PyTrue, OneItem),
      WithOptions(source, Section(source, PyTrue, TwoItems)),
      WithNumbers(source, Section(source, PyTrue, OneItem)),
      Section(source, PyTrue, Absent),
      Section(source, PyTrue, PyList(<<>>)),
      Section(source, PyTrue, PyStr("left-pad")),    \* a scalar, not a list
      Section(source, PyFalse, OneItem),
      Section(source, Absent, OneItem),
      Section(source, PyStr("Yes"), OneItem),        \* `enabled: "Yes"`
      Section(source, PyNone, OneItem) }             \* `enabled:` left empty

Metadata(name, description, created) ==
    PyDict([environment_name |-> name, description |-> description,
            created |-> created])

Output(name, compression, split) ==
    PyDict([tarball_name |-> name, compression |-> compression,
            split_size |-> split])

Security(generate, algorithm) ==
    PyDict([generate_checksums |-> generate, checksum_algorithm |-> algorithm])

\* The sections that are not sources: metadata, output, security
Others ==
    { [metadata |-> Metadata(PyStr("prod"), Absent, Absent),
       output |-> Absent, security |-> Absent],
      [metadata |-> Absent, output |-> Absent, security |-> Absent],
      [metadata |-> Metadata(Absent, Absent, Absent),
       output |-> Output(Absent, Absent, Absent),
       security |-> Security(Absent, Absent)],
      [metadata |-> Metadata(PyStr("lab"), PyStr("air-gapped"), Absent),
       output |-> Output(PyStr("bundle"), PyStr("zstd"), PyStr("4G")),
       security |-> Security(PyFalse, PyStr("sha512"))],
      [metadata |-> Metadata(PyStr("prod"), Absent, PyDate("2024-01-15")),
       output |-> Absent, security |-> Absent],
      [metadata |-> Metadata(PyStr("prod"), Absent, Absent),
       output |-> PyNone, security |-> Absent] }     \* `output:` left empty

TopKeys == SourceSet \cup {"metadata", "output", "security"}

\* A document: `secs[i]` is the section of Sources[i] (Absent: no such key)
\* and `o` holds the other sections
Document(secs, o) ==
    PyDict([k \in TopKeys |->
              IF k \in SourceSet
              THEN secs[CHOOSE i \in 1..Len(Sources) : Sources[i] = k]
              ELSE o[k]])

\* The choices of the sections of Sources[i], Sources[i+1], ... with at most
\* n of them keys of the document
RECURSIVE SectionChoices(_, _)
SectionChoices(i, n) ==
    IF i > Len(Sources) THEN {<<>>}
    ELSE { <<Absent>> \o rest : rest \in SectionChoices(i + 1, n) }
         \cup (IF n = 0 THEN {}
               ELSE { <<v>> \o rest : v \in SectionValues(Sources[i]),
                                      rest \in SectionChoices(i + 1, n - 1) })

\* The documents of the model: at most MaxSections source sections are keys
Documents ==
    { Document(secs, o) : secs \in SectionChoices(1, MaxSections), o \in Others }

NoConfig == [t |-> "unset"]

----------------------------------------------------------------------------
(* validate_config *)

\* config.get(source, {})
SectionOf(cfg, source) == Get(cfg, source, PyDict(EmptySection))

\* validate_config raises instead of returning or exiting: `'metadata' not in
\* config` on a document that is no container (an empty file loads as None),
\* or `.get` on a section that is no mapping
ValidateRaises(cfg) ==
    \/ ~IsDict(cfg)
    \/ \E s \in SourceSet : In(s, cfg) /\ ~IsDict(cfg.d[s])

\* the enabled_sources list of lines 37-40
EnabledSources(cfg) ==
    SelectSeq(Sources,
              LAMBDA s : In(s, cfg) /\ Truthy(Get(cfg.d[s], "enabled", PyFalse)))

\* `if config.get(source, {}).get('enabled'):` of the per-source blocks
IsEnabled(cfg, source) == Truthy(Get(SectionOf(cfg, source), "enabled", PyNone))

\* one "Validate <source> section" block: the error it appends, if any
SourceErrors(cfg, source) ==
    IF /\ IsEnabled(cfg, source)
       /\ \/ ~In(RequiredList(source), cfg.d[source])
          \/ ~Truthy(cfg.d[source].d[RequiredList(source)])
    THEN << source \o " is enabled but no " \o RequiredList(source) \o " specified" >>
    ELSE <<>>

\* the errors list when line 75 is reached
ValidationErrors(cfg) ==
    (IF ~In("metadata", cfg) THEN <<"Missing 'metadata' section">> ELSE <<>>)
    \o (IF EnabledSources(cfg) = <<>>
        THEN <<"No package sources are enabled">> ELSE <<>>)
    \o SourceErrors(cfg, "npm") \o SourceErrors(cfg, "pypi")
    \o SourceErrors(cfg, "debian") \o SourceErrors(cfg, "rpm")
    \o SourceErrors(cfg, "containers") \o SourceErrors(cfg, "vscode")

\* lines 75-79: what the failure report writes to the error stream
ErrorReport(errors) ==
    <<"Configuration validation errors:">>
    \o [i \in 1..Len(errors) |-> "  - " \o errors[i]]

\* an exception nobody catches: the interpreter prints a traceback to the
\* error stream and the process exits with status 1
Traceback(exc) == <<"Traceback (most recent call last): " \o exc>>

----------------------------------------------------------------------------
(* export_env_vars *)

\* f"export {var}='{value}'"
Quoted(var, value) == [var |-> var, val |-> Str(value), quoted |-> TRUE]

\* f"export {var}={str(value).lower()}"
Bare(var, value) == [var |-> var, val |-> Lower(Str(value)), quoted |-> FALSE]

MetadataLines(cfg) ==
    IF In("metadata", cfg)
    THEN << Quoted("ENV_NAME", Get(cfg.d.metadata, "environment_name", PyStr("default"))),
            Quoted("ENV_DESC", Get(cfg.d.metadata, "description", PyStr(""))) >>
    ELSE <<>>

EnabledLines(cfg) ==
    [i \in 1..Len(Sources) |->
        Bare(Upper(Sources[i]) \o "_ENABLED",
             Get(SectionOf(cfg, Sources[i]), "enabled", PyFalse))]

\* the optional comma-joined list of a section
JoinedLine(sec, key, var) ==
    IF In(key, sec) THEN << Quoted(var, PyStr(Join(sec.d[key]))) >> ELSE <<>>

NpmLines(cfg) ==
    IF IsEnabled(cfg, "npm")
    THEN << Bare("NPM_INCLUDE_DEPS",
                 Get(cfg.d.npm, "include_dependencies", PyTrue)) >>
    ELSE <<>>

PypiLines(cfg) ==
    IF IsEnabled(cfg, "pypi")
    THEN << Bare("PYPI_INCLUDE_DEPS",
                 Get(cfg.d.pypi, "include_dependencies", PyTrue)) >>
         \o JoinedLine(cfg.d.pypi, "python_versions", "PYPI_PYTHON_VERSIONS")
         \o JoinedLine(cfg.d.pypi, "platforms", "PYPI_PLATFORMS")
    ELSE <<>>

DebianLines(cfg) ==
    IF IsEnabled(cfg, "debian")
    THEN << Quoted("DEBIAN_DISTRIBUTION",
                   Get(cfg.d.debian, "distribution", PyStr("ubuntu"))),
            Quoted("DEBIAN_RELEASE", Get(cfg.d.debian, "release", PyStr("22.04"))),
            Bare("DEBIAN_INCLUDE_DEPS",
                 Get(cfg.d.debian, "include_dependencies", PyTrue)) >>
         \o JoinedLine(cfg.d.debian, "architectures", "DEBIAN_ARCHITECTURES")
    ELSE <<>>

RpmLines(cfg) ==
    IF IsEnabled(cfg, "rpm")
    THEN << Quoted("RPM_DISTRIBUTION",
                   Get(cfg.d.rpm, "distribution", PyStr("rhel"))),
            Quoted("RPM_RELEASE", Get(cfg.d.rpm, "release", PyStr("9"))),
            Bare("RPM_INCLUDE_DEPS",
                 Get(cfg.d.rpm, "include_dependencies", PyTrue)) >>
         \o JoinedLine(cfg.d.rpm, "architectures", "RPM_ARCHITECTURES")
    ELSE <<>>

\* ContainersLines with the group keyed on the section being present rather
\* than enabled: `if 'containers' in config:`
ContainersLines_WhenPresent(cfg) ==
    IF In("containers", cfg)
    THEN << Quoted("CONTAINERS_EXPORT_FORMAT",
                   Get(cfg.d.containers, "export_format", PyStr("docker-archive"))) >>
    ELSE <<>>

ContainersLines(cfg) ==
    IF IsEnabled(cfg, "containers")
    THEN << Quoted("CONTAINERS_EXPORT_FORMAT",
                   Get(cfg.d.containers, "export_format", PyStr("docker-archive"))) >>
    ELSE <<>>

OutputLines(cfg) ==
    IF In("output", cfg)
    THEN << Quoted("OUTPUT_TARBALL_NAME",
                   Get(cfg.d.output, "tarball_name", PyStr("resources-bundle"))),
            Quoted("OUTPUT_COMPRESSION",
                   Get(cfg.d.output, "compression", PyStr("gzip"))),
            Quoted("OUTPUT_SPLIT_SIZE", Get(cfg.d.output, "split_size", PyStr("0"))) >>
    ELSE <<>>

SecurityLines(cfg) ==
    IF In("security", cfg)
    THEN << Bare("SECURITY_GENERATE_CHECKSUMS",
                 Get(cfg.d.security, "generate_checksums", PyTrue)),
            Quoted("SECURITY_CHECKSUM_ALGORITHM",
                   Get(cfg.d.security, "checksum_algorithm", PyStr("sha256"))) >>
    ELSE <<>>

\* the env_lines list that line 160 joins with newlines
export_env_vars(cfg) ==
    MetadataLines(cfg) \o EnabledLines(cfg) \o NpmLines(cfg) \o PypiLines(cfg)
    \o DebianLines(cfg) \o RpmLines(cfg) \o ContainersLines(cfg)
    \o OutputLines(cfg) \o SecurityLines(cfg)

\* `','.join(...)` of an optional list of an enabled section raises
JoinFails(cfg, source, key) ==
    /\ IsEnabled(cfg, source)
    /\ In(key, cfg.d[source])
    /\ JoinRaises(cfg.d[source].d[key])

\* export_env_vars raises instead of returning: `.get` on a section that is
\* no mapping (AttributeError), or a join of a list that holds a non-str
ExportEnvRaises(cfg) ==
    \/ \E k \in TopKeys : In(k, cfg) /\ ~IsDict(cfg.d[k])
    \/ JoinFails(cfg, "pypi", "python_versions")
    \/ JoinFails(cfg, "pypi", "platforms")
    \/ JoinFails(cfg, "debian", "architectures")
    \/ JoinFails(cfg, "rpm", "architectures")

----------------------------------------------------------------------------
(* export_json: json.dumps, and yaml.safe_load of what it wrote *)

JMissing == [j |-> "missing"]       \* the object has no such member
JNull == [j |-> "null"]
JBool(b) == [j |-> "literal", lit |-> IF b THEN "true" ELSE "false"]
JString(s) == [j |-> "string", chars |-> s]
JNumber(r) == [j |-> "number", digits |-> r]
JArray(a) == [j |-> "array", items |-> a]
JObject(m) == [j |-> "object", members |-> m]

\* json.dumps raises TypeError: the document holds a value that is not JSON
\* serializable (YAML reads an unquoted 2024-01-15 as a datetime.date)
RECURSIVE DumpsRaises(_)
DumpsRaises(v) ==
    CASE v.t = "date" -> TRUE
      [] v.t = "list" -> \E i \in 1..Len(v.l) : DumpsRaises(v.l[i])
      [] v.t = "dict" -> \E k \in DOMAIN v.d : DumpsRaises(v.d[k])
      [] OTHER -> FALSE

\* json.dumps(config, indent=2), as the JSON text's structure
RECURSIVE Dumps(_)
Dumps(v) ==
    CASE v.t = "absent" -> JMissing
      [] v.t = "none" -> JNull
      [] v.t = "bool" -> JBool(v.b)
      [] v.t = "str" -> JString(v.s)
      [] v.t = "float" -> JNumber(v.repr)
      [] v.t = "list" -> JArray([i \in 1..Len(v.l) |-> Dumps(v.l[i])])
      [] v.t = "dict" -> JObject([k \in DOMAIN v.d |-> Dumps(v.d[k])])

\* yaml.safe_load of a JSON text (JSON is read as YAML flow style)
RECURSIVE SafeLoadJson(_)
SafeLoadJson(x) ==
    CASE x.j = "missing" -> Absent
      [] x.j = "null" -> PyNone
      [] x.j = "literal" -> PyBool(x.lit = "true")
      [] x.j = "string" -> PyStr(x.chars)
      [] x.j = "number" -> PyFloat(x.digits)
      [] x.j = "array" -> PyList([i \in 1..Len(x.items) |-> SafeLoadJson(x.items[i])])
      [] x.j = "object" ->
           PyDict([k \in DOMAIN x.members |-> SafeLoadJson(x.members[k])])

----------------------------------------------------------------------------
(* main *)

\* what print() writes to standard output
Message(text) == [k |-> "message", text |-> text]
JsonText(tree) == [k |-> "json", tree |-> tree]
EnvText(lines) == [k |-> "env", lines |-> lines]

\* the --output destination file
Untouched == [state |-> "untouched"]           \* neither created nor modified
Truncated == [state |-> "partial"]             \* opened for writing, write cut short
Written(text) == [state |-> "written", text |-> text]

\* the outcomes of `with open(output_path, 'w') as f: f.write(text)`
WriteOutcomes == {"written", "open fails", "write fails"}

ArgSpace ==
    [format : {"json", "env"}, output : BOOLEAN, validate_only : BOOLEAN]

Init ==
    /\ pc = "start"
    /\ args \in ArgSpace
    /\ cfgfile \in {"missing", "malformed", "ok"}
    /\ config = NoConfig
    /\ stdout = <<>>
    /\ stderr = <<>>
    /\ dest = Untouched
    /\ status = "running"

\* Die with the exit status lost: `sys.exit()`
Die_ExitsZero(report) ==
    /\ stderr' = stderr \o report
    /\ status' = "0"
    /\ pc' = "exit"

\* sys.exit(1), or an uncaught exception: the run ends with status 1
Die(report) ==
    /\ stderr' = stderr \o report
    /\ status' = "1"
    /\ pc' = "exit"

\* load_config, lines 14-25
LoadConfig ==
    /\ pc = "start"
    /\ \/ /\ cfgfile = "missing"
          /\ Die(<<"Error: Configuration file not found">>)
          /\ UNCHANGED config
       \/ /\ cfgfile = "malformed"
          /\ Die(<<"Error: Invalid YAML in configuration file">>)
          /\ UNCHANGED config
       \/ /\ cfgfile = "ok"
          /\ config' \in Documents \cup {PyNone}
          /\ pc' = "loaded"
          /\ UNCHANGED <<stderr, status>>
    /\ UNCHANGED <<args, cfgfile, stdout, dest>>

\* validate_config, lines 28-81
ValidateConfig ==
    /\ pc = "loaded"
    /\ IF ValidateRaises(config)
       THEN Die(Traceback("validate_config"))
       ELSE IF ValidationErrors(config) # <<>>
       THEN Die(ErrorReport(ValidationErrors(config)))
       ELSE /\ pc' = "validated"
            /\ UNCHANGED <<stderr, status>>
    /\ UNCHANGED <<args, cfgfile, config, stdout, dest>>

\* lines 183-185
ValidateOnly ==
    /\ pc = "validated"
    /\ args.validate_only
    /\ stdout' = Append(stdout, Message("Configuration is valid"))
    /\ status' = "0"
    /\ pc' = "exit"
    /\ UNCHANGED <<args, cfgfile, config, stderr, dest>>

\* Emit with the failure of the write swallowed: the run confirms the path
\* and exits 0 over a truncated destination
Emit_SwallowsWriteError(text, confirmation) ==
    IF args.output
    THEN \E outcome \in WriteOutcomes :
           \/ /\ outcome \in {"written", "write fails"}
              /\ dest' = IF outcome = "written" THEN Written(text) ELSE Truncated
              /\ stdout' = Append(stdout, Message(confirmation))
              /\ status' = "0"
              /\ pc' = "exit"
              /\ UNCHANGED stderr
           \/ /\ outcome = "open fails"
              /\ Die(Traceback("open"))
              /\ UNCHANGED <<dest, stdout>>
    ELSE /\ stdout' = Append(stdout, text)
         /\ status' = "0"
         /\ pc' = "exit"
         /\ UNCHANGED <<stderr, dest>>

\* emit `text`: to the destination file, confirming the path on standard
\* output (lines 88-91 and 192-195), else to standard output (93 and 197)
Emit(text, confirmation) ==
    IF args.output
    THEN \E outcome \in WriteOutcomes :
           \/ /\ outcome = "written"
              /\ dest' = Written(text)
              /\ stdout' = Append(stdout, Message(confirmation))
              /\ status' = "0"
              /\ pc' = "exit"
              /\ UNCHANGED stderr
           \/ /\ outcome = "open fails"
              /\ Die(Traceback("open"))
              /\ UNCHANGED <<dest, stdout>>
           \/ /\ outcome = "write fails"
              /\ dest' = Truncated
              /\ Die(Traceback("write"))
              /\ UNCHANGED stdout
    ELSE /\ stdout' = Append(stdout, text)
         /\ status' = "0"
         /\ pc' = "exit"
         /\ UNCHANGED <<stderr, dest>>

\* ExportJson with the `return` of validate-only mode lost: the run goes on
\* to export
ExportJson_IgnoresValidateOnly ==
    /\ pc = "validated"
    /\ args.format = "json"
    /\ IF DumpsRaises(config)
       THEN Die(Traceback("json.dumps")) /\ UNCHANGED <<stdout, dest>>
       ELSE Emit(JsonText(Dumps(config)), "Configuration exported to: <output>")
    /\ UNCHANGED <<args, cfgfile, config>>

\* lines 188-189 and export_json, lines 84-93
ExportJson ==
    /\ pc = "validated"
    /\ ~args.validate_only
    /\ args.format = "json"
    /\ IF DumpsRaises(config)
       THEN Die(Traceback("json.dumps")) /\ UNCHANGED <<stdout, dest>>
       ELSE Emit(JsonText(Dumps(config)), "Configuration exported to: <output>")
    /\ UNCHANGED <<args, cfgfile, config>>

\* lines 190-197 and export_env_vars, lines 96-160
ExportEnv ==
    /\ pc = "validated"
    /\ ~args.validate_only
    /\ args.format = "env"
    /\ IF ExportEnvRaises(config)
       THEN Die(Traceback("export_env_vars")) /\ UNCHANGED <<stdout, dest>>
       ELSE Emit(EnvText(export_env_vars(config)),
                 "Environment variables exported to: <output>")
    /\ UNCHANGED <<args, cfgfile, config>>

Next == LoadConfig \/ ValidateConfig \/ ValidateOnly \/ ExportJson \/ ExportEnv

Spec == Init /\ [][Next]_vars

----------------------------------------------------------------------------
(* What the claims speak of, read off a state of the run *)

\* the run has loaded a document
Loaded == config # NoConfig

\* validate_config ended the run: its failure report, or its traceback
Rejected ==
    /\ pc = "exit" /\ Loaded /\ stderr # <<>>
    /\ stderr[1] \in {"Configuration validation errors:",
                      "Traceback (most recent call last): validate_config"}

\* validate_config returned
Accepted == Loaded /\ pc # "loaded" /\ ~Rejected

\* the mapping m holds the key k
HasKey(m, k) == m.t = "dict" /\ k \in DOMAIN m.d /\ m.d[k].t # "absent"

\* the section of source s has `enabled = true`; any value Python takes as
\* true counts, the reading most favourable to the program
EnabledTrue(doc, s) ==
    /\ HasKey(doc, s) /\ HasKey(doc.d[s], "enabled")
    /\ Truthy(doc.d[s].d["enabled"])

NonEmptyList(v) == v.t = "list" /\ Len(v.l) > 0

\* the section of source s supplies its required list as a non-empty list
SuppliesList(doc, s) ==
    /\ HasKey(doc.d[s], RequiredList(s))
    /\ NonEmptyList(doc.d[s].d[RequiredList(s)])

\* the invariant of the data model: the three conditions of a valid document
MeetsInvariant(doc) ==
    /\ HasKey(doc, "metadata")
    /\ \E s \in SourceSet : EnabledTrue(doc, s)
    /\ \A s \in SourceSet : EnabledTrue(doc, s) => SuppliesList(doc, s)

\* the text was emitted: written to the destination, or printed
EmittedTo(place) == place.k \in {"json", "env"}

Emitted ==
    \/ dest.state = "written"
    \/ \E i \in 1..Len(stdout) : EmittedTo(stdout[i])

\* the run failed opening or writing the --output destination
DestinationFailed ==
    \/ dest.state = "partial"
    \/ stderr # <<>> /\ stderr[1] = "Traceback (most recent call last): open"

----------------------------------------------------------------------------
(* C1 *)

\* C1: validate_config accepts a parsed document if and only if metadata is
\* present, at least one source section has enabled = true, and every section
\* with enabled = true supplies its required list as a non-empty list; in
\* every other case it ends the run with a non-zero exit status.
C1_AcceptsIffInvariant ==
    (Accepted \/ Rejected) =>
        /\ Accepted <=> MeetsInvariant(config)
        /\ Rejected => status = "1"

----------------------------------------------------------------------------
(* C2 *)

\* the source s is enabled and its required list is absent or empty
MissingList(doc, s) ==
    /\ EnabledTrue(doc, s)
    /\ \/ ~HasKey(doc.d[s], RequiredList(s))
       \/ doc.d[s].d[RequiredList(s)] = PyList(<<>>)

\* the message of every violated rule of the checklist
ViolatedRules(doc) ==
    (IF HasKey(doc, "metadata") THEN {} ELSE {"Missing 'metadata' section"})
    \cup (IF \E s \in SourceSet : EnabledTrue(doc, s) THEN {}
          ELSE {"No package sources are enabled"})
    \cup { s \o " is enabled but no " \o RequiredList(s) \o " specified" :
             s \in {x \in SourceSet : MissingList(doc, x)} }

\* C2: validation is not fail-fast: the one failure report on the error
\* stream holds one distinct line for every violated rule and no line for a
\* rule that is not violated.
C2_ReportsEveryViolation ==
    ((Accepted \/ Rejected) /\ ViolatedRules(config) # {}) =>
        /\ Rejected
        /\ stderr[1] = "Configuration validation errors:"
        /\ Len(stderr) = 1 + Cardinality(ViolatedRules(config))
        /\ {stderr[i] : i \in 2..Len(stderr)}
             = {"  - " \o m : m \in ViolatedRules(config)}

----------------------------------------------------------------------------
(* C3 *)

\* a valid document with exactly one enabled source
ValidWithOneSource(doc) ==
    /\ MeetsInvariant(doc)
    /\ Cardinality({s \in SourceSet : EnabledTrue(doc, s)}) = 1

\* C3: for every valid document with exactly one enabled source and its
\* non-empty list, projection completes: the run reaches the emit step and
\* exits with status 0, for json and for env, whatever the optional fields of
\* the document hold (a failure of the destination file is not a matter of
\* the document and is left out).
C3_ProjectionCompletes ==
    (/\ pc = "exit" /\ Accepted /\ ~args.validate_only
     /\ ValidWithOneSource(config) /\ ~DestinationFailed)
    => (status = "0" /\ Emitted)

----------------------------------------------------------------------------
(* C4 *)

\* the run has entered projection: it emitted, touched the destination, or
\* died in export_json, export_env_vars or the write
Projecting ==
    \/ Emitted
    \/ dest # Untouched
    \/ \E i \in 1..Len(stdout) :
         stdout[i].k = "message" /\ stdout[i].text # "Configuration is valid"
    \/ /\ stderr # <<>>
       /\ stderr[1] \in {"Traceback (most recent call last): json.dumps",
                         "Traceback (most recent call last): export_env_vars",
                         "Traceback (most recent call last): open",
                         "Traceback (most recent call last): write"}

\* C4: control flow is load -> validate -> (stop if validate-only) -> project
\* -> emit: projection and emission happen only after loading and validation
\* have both succeeded, and a validate-only run prints the confirmation and
\* exits 0 without projecting or writing the destination, whatever --format
\* and --output are.
C4_LinearFlow ==
    /\ Loaded => cfgfile = "ok"
    /\ pc = "validated" => Loaded
    /\ Projecting =>
         /\ Loaded
         /\ ~ValidateRaises(config)
         /\ ValidationErrors(config) = <<>>
         /\ ~args.validate_only
    /\ (pc = "exit" /\ Accepted /\ args.validate_only) =>
         /\ stdout = <<Message("Configuration is valid")>>
         /\ stderr = <<>>
         /\ status = "0"
         /\ dest = Untouched

\* C4 witness: a validate-only run given --format env and --output has ended
C4_Witness ==
    /\ pc = "exit" /\ Accepted
    /\ args = [format |-> "env", output |-> TRUE, validate_only |-> TRUE]
    /\ status = "0"

----------------------------------------------------------------------------
(* C5 *)

\* the run failed in loading, parsing or validation
FailedBeforeProjection == pc = "exit" /\ (cfgfile # "ok" \/ Rejected)

\* C5 as stated: status 0 on success and non-zero on any load, parse or
\* validation failure; in every failing run the diagnostics go only to the
\* error stream, nothing is written to standard output, and the destination
\* file is neither created nor modified.
C5_NoOutputOnFailure ==
    pc = "exit" =>
        /\ status \in {"0", "1"}
        /\ FailedBeforeProjection => status = "1"
        /\ status = "0" => stderr = <<>>
        /\ status # "0" =>
             (stderr # <<>> /\ stdout = <<>> /\ dest = Untouched)

\* C5 amended: as C5, but the destination file is untouched only in the runs
\* that fail before it is opened; a run that fails while writing the opened
\* destination leaves it truncated or partially written.
C5_NoOutputUnlessWriteFails ==
    pc = "exit" =>
        /\ status \in {"0", "1"}
        /\ FailedBeforeProjection => (status = "1" /\ dest = Untouched)
        /\ status = "0" => stderr = <<>>
        /\ status # "0" =>
             /\ stderr # <<>>
             /\ stdout = <<>>
             /\ dest # Untouched =>
                  /\ dest.state = "partial"
                  /\ stderr = <<"Traceback (most recent call last): write">>
                  /\ args.output /\ Accepted

\* C5 witness: validation failed in a run that was to write --output
C5_Witness ==
    /\ pc = "exit" /\ Rejected /\ args.output /\ ~args.validate_only
    /\ stderr[1] = "Configuration validation errors:"
    /\ status = "1"

----------------------------------------------------------------------------
(* C6, C7, C10: the environment-variable encoding *)

\* the text the run emitted
EmittedText == IF dest.state = "written" THEN dest.text ELSE stdout[1]

EnvEmitted == Emitted /\ EmittedText.k = "env"

EnvLines == EmittedText.lines

HasLine(var) == \E i \in 1..Len(EnvLines) : EnvLines[i].var = var

LineOf(var) == EnvLines[CHOOSE i \in 1..Len(EnvLines) : EnvLines[i].var = var]

FlagVar(s) == Upper(s) \o "_ENABLED"

\* C6: the env encoding holds exactly six <SOURCE>_ENABLED assignments, in
\* the order npm, pypi, debian, rpm, containers, vscode, whether or not the
\* section is present or enabled, each with the lower-cased literal true or
\* false as its value, true exactly when the source is enabled.
C6_SixLiteralFlags ==
    EnvEmitted =>
        LET flags == SelectSeq(EnvLines,
                       LAMBDA l : l.var \in {FlagVar(s) : s \in SourceSet})
        IN  /\ Len(flags) = Len(Sources)
            /\ \A i \in 1..Len(Sources) :
                 /\ flags[i].var = FlagVar(Sources[i])
                 /\ ~flags[i].quoted
                 /\ flags[i].val \in {"true", "false"}
                 /\ flags[i].val = "true" <=> EnabledTrue(config, Sources[i])

\* the assignments that are specific to a source
SpecificVars(s) ==
    CASE s = "npm" -> {"NPM_INCLUDE_DEPS"}
      [] s = "pypi" -> {"PYPI_INCLUDE_DEPS", "PYPI_PYTHON_VERSIONS", "PYPI_PLATFORMS"}
      [] s = "debian" -> {"DEBIAN_DISTRIBUTION", "DEBIAN_RELEASE",
                          "DEBIAN_INCLUDE_DEPS", "DEBIAN_ARCHITECTURES"}
      [] s = "rpm" -> {"RPM_DISTRIBUTION", "RPM_RELEASE", "RPM_INCLUDE_DEPS",
                       "RPM_ARCHITECTURES"}
      [] s = "containers" -> {"CONTAINERS_EXPORT_FORMAT"}
      [] OTHER -> {}

\* the <SOURCE>_ENABLED line of s reads `true`
FlagReadsTrue(s) == HasLine(FlagVar(s)) /\ LineOf(FlagVar(s)).val = "true"

\* C10: validator and projector agree on the enabled sources: in the env
\* encoding of a document that passed validation, the assignments specific to
\* a source are emitted exactly when its <SOURCE>_ENABLED line reads true,
\* and every source whose line reads true has a non-empty required list,
\* whatever value `enabled` holds.
C10_FlagsAgreeWithGroups ==
    EnvEmitted =>
        \A s \in SourceSet :
            /\ SpecificVars(s) # {} =>
                 ((\E v \in SpecificVars(s) : HasLine(v)) <=> FlagReadsTrue(s))
            /\ FlagReadsTrue(s) =>
                 /\ HasKey(config.d[s], RequiredList(s))
                 /\ Truthy(config.d[s].d[RequiredList(s)])

----------------------------------------------------------------------------
(* C7 *)

\* every assignment of the encoding, in the order the groups are listed
ListedOrder ==
    << "ENV_NAME", "ENV_DESC",
       "NPM_ENABLED", "PYPI_ENABLED", "DEBIAN_ENABLED", "RPM_ENABLED",
       "CONTAINERS_ENABLED", "VSCODE_ENABLED",
       "NPM_INCLUDE_DEPS",
       "PYPI_INCLUDE_DEPS", "PYPI_PYTHON_VERSIONS", "PYPI_PLATFORMS",
       "DEBIAN_DISTRIBUTION", "DEBIAN_RELEASE", "DEBIAN_INCLUDE_DEPS",
       "DEBIAN_ARCHITECTURES",
       "RPM_DISTRIBUTION", "RPM_RELEASE", "RPM_INCLUDE_DEPS", "RPM_ARCHITECTURES",
       "CONTAINERS_EXPORT_FORMAT",
       "OUTPUT_TARBALL_NAME", "OUTPUT_COMPRESSION", "OUTPUT_SPLIT_SIZE",
       "SECURITY_GENERATE_CHECKSUMS", "SECURITY_CHECKSUM_ALGORITHM" >>

Place(var) == CHOOSE i \in 1..Len(ListedOrder) : ListedOrder[i] = var

\* the scalar assignments: the section and key each is read from, the
\* documented default, and whether it is a lower-cased boolean
Scalars ==
    { [var |-> "ENV_NAME", sec |-> "metadata", key |-> "environment_name",
       default |-> "default", bool |-> FALSE],
      [var |-> "ENV_DESC", sec |-> "metadata", key |-> "description",
       default |-> "", bool |-> FALSE],
      [var |-> "NPM_INCLUDE_DEPS", sec |-> "npm", key |-> "include_dependencies",
       default |-> "true", bool |-> TRUE],
      [var |-> "PYPI_INCLUDE_DEPS", sec |-> "pypi", key |-> "include_dependencies",
       default |-> "true", bool |-> TRUE],
      [var |-> "DEBIAN_DISTRIBUTION", sec |-> "debian", key |-> "distribution",
       default |-> "ubuntu", bool |-> FALSE],
      [var |-> "DEBIAN_RELEASE", sec |-> "debian", key |-> "release",
       default |-> "22.04", bool |-> FALSE],
      [var |-> "DEBIAN_INCLUDE_DEPS", sec |-> "debian",
       key |-> "include_dependencies", default |-> "true", bool |-> TRUE],
      [var |-> "RPM_DISTRIBUTION", sec |-> "rpm", key |-> "distribution",
       default |-> "rhel", bool |-> FALSE],
      [var |-> "RPM_RELEASE", sec |-> "rpm", key |-> "release",
       default |-> "9", bool |-> FALSE],
      [var |-> "RPM_INCLUDE_DEPS", sec |-> "rpm", key |-> "include_dependencies",
       default |-> "true", bool |-> TRUE],
      [var |-> "CONTAINERS_EXPORT_FORMAT", sec |-> "containers",
       key |-> "export_format", default |-> "docker-archive", bool |-> FALSE],
      [var |-> "OUTPUT_TARBALL_NAME", sec |-> "output", key |-> "tarball_name",
       default |-> "resources-bundle", bool |-> FALSE],
      [var |-> "OUTPUT_COMPRESSION", sec |-> "output", key |-> "compression",
       default |-> "gzip", bool |-> FALSE],
      [var |-> "OUTPUT_SPLIT_SIZE", sec |-> "output", key |-> "split_size",
       default |-> "0", bool |-> FALSE],
      [var |-> "SECURITY_GENERATE_CHECKSUMS", sec |-> "security",
       key |-> "generate_checksums", default |-> "true", bool |-> TRUE],
      [var |-> "SECURITY_CHECKSUM_ALGORITHM", sec |-> "security",
       key |-> "checksum_algorithm", default |-> "sha256", bool |-> FALSE] }

\* the optional comma-joined lists
OptionalLists ==
    { [var |-> "PYPI_PYTHON_VERSIONS", sec |-> "pypi", key |-> "python_versions"],
      [var |-> "PYPI_PLATFORMS", sec |-> "pypi", key |-> "platforms"],
      [var |-> "DEBIAN_ARCHITECTURES", sec |-> "debian", key |-> "architectures"],
      [var |-> "RPM_ARCHITECTURES", sec |-> "rpm", key |-> "architectures"] }

\* the governing condition of the group read from section `sec`: a source
\* group is governed by enablement, metadata/output/security by presence
Governs(doc, sec) ==
    IF sec \in SourceSet THEN EnabledTrue(doc, sec) ELSE HasKey(doc, sec)

\* C7: in the env encoding each conditional group is emitted if and only if
\* its governing condition holds (a source group when the source is enabled,
\* output and security when the section is present, an optional list line
\* when the list is present), the assignments appear in the listed order, and
\* every absent scalar field is replaced by its documented default.
C7_GroupsOrderDefaults ==
    EnvEmitted =>
        /\ \A i \in 1..Len(EnvLines) : \A j \in 1..Len(EnvLines) :
             i < j => Place(EnvLines[i].var) < Place(EnvLines[j].var)
        /\ \A i \in 1..Len(EnvLines) :
             \E n \in 1..Len(ListedOrder) : ListedOrder[n] = EnvLines[i].var
        /\ \A x \in Scalars :
             /\ HasLine(x.var) <=> Governs(config, x.sec)
             /\ HasLine(x.var) =>
                  /\ LineOf(x.var).quoted = ~x.bool
                  /\ ~HasKey(config.d[x.sec], x.key) =>
                       LineOf(x.var).val = x.default
        /\ \A x \in OptionalLists :
             HasLine(x.var) <=>
                 (Governs(config, x.sec) /\ HasKey(config.d[x.sec], x.key))

\* C7 witness: an encoding with debian enabled and its scalars at their
\* defaults, another source present but not enabled, and an output section
C7_Witness ==
    /\ EnvEmitted
    /\ EnabledTrue(config, "debian")
    /\ ~HasKey(config.d["debian"], "release")
    /\ HasKey(config, "containers") /\ ~EnabledTrue(config, "containers")
    /\ HasKey(config, "output") /\ ~HasKey(config.d["output"], "compression")

----------------------------------------------------------------------------
(* C8 *)

\* what validate_config does with a document
ValidationOutcome(doc) ==
    IF ValidateRaises(doc) THEN "raises"
    ELSE IF ValidationErrors(doc) # <<>> THEN "invalid"
    ELSE "valid"

\* a second run that loads what this run emitted: the destination file when
\* --output was given, else what this run printed (nothing printed loads as
\* an empty document, None)
ReloadOutcome ==
    IF args.output
    THEN CASE dest.state = "written" ->
                ValidationOutcome(SafeLoadJson(dest.text.tree))
           [] dest.state = "untouched" -> "file not found"
           [] OTHER -> "invalid yaml"
    ELSE IF stdout = <<>> THEN ValidationOutcome(PyNone)
         ELSE ValidationOutcome(SafeLoadJson(stdout[1].tree))

\* C8: for every validated document, projecting it with the json encoding
\* and re-loading that output yields a document that validates again (a
\* failure of the destination file is not a matter of the document and is
\* left out).
C8_JsonRoundTrip ==
    (/\ pc = "exit" /\ Accepted /\ ~args.validate_only
     /\ args.format = "json" /\ ~DestinationFailed)
    => ReloadOutcome = "valid"

----------------------------------------------------------------------------
(* C9 *)

\* the confirmation naming the destination path has been printed
Confirmed ==
    \E i \in 1..Len(stdout) :
        stdout[i].k = "message" /\ stdout[i].text # "Configuration is valid"

\* C9: a failure while opening or writing the destination is fatal: the run
\* ends with a non-zero status, the confirmation naming the destination is
\* never printed, and no run is reported as success while the destination is
\* missing or partially written.
C9_WriteFailureIsFatal ==
    /\ DestinationFailed => (pc = "exit" /\ status = "1" /\ ~Confirmed)
    /\ Confirmed => dest.state = "written"
    /\ (status = "0" /\ args.output /\ ~args.validate_only) =>
         /\ dest.state = "written"
         /\ dest.text = IF args.format = "json"
                        THEN JsonText(Dumps(config))
                        ELSE EnvText(export_env_vars(config))

\* C9 witness: the write to the opened destination failed
C9_Witness == pc = "exit" /\ dest.state = "partial" /\ args.format = "env"

=============================================================================
